---- MODULE Spec2Model ----
(***************************************************************************)
(* Model of ocr_http (src/ocr_http/__init__.py): the upload resolver       *)
(* (_extract_upload, _parse_multipart, _infer_content_type), the analysis  *)
(* client (_analyze_document, _poll_result), the result extractor          *)
(* (_extract_text) and the request handler main.                           *)
(*                                                                         *)
(* Bytes and characters are one-character strings ("a", "-", CR, LF);      *)
(* a bytes or str value is a sequence of them.  Every byte of the model    *)
(* is ASCII, so decode("utf-8", errors="ignore") keeps the sequence.       *)
(* None is the Python None; a dict is a function whose DOMAIN is its keys. *)
(***************************************************************************)
EXTENDS Integers, Sequences, FiniteSets, TLC

\* Python None, kept a sequence so that it compares with any bytes or str
None == <<"None">>
CR == "\r"
LF == "\n"
DQ == "\""
SP == " "

(***************************************************************************)
(* bytes / str primitives                                                  *)
(***************************************************************************)
UpperLetters == <<"A","B","C","D","E","F","G","H","I","J","K","L","M",
                  "N","O","P","Q","R","S","T","U","V","W","X","Y","Z">>
LowerLetters == <<"a","b","c","d","e","f","g","h","i","j","k","l","m",
                  "n","o","p","q","r","s","t","u","v","w","x","y","z">>

\* str.lower() on one character
LowerChar(c) ==
    IF \E i \in 1..26 : UpperLetters[i] = c
    THEN LowerLetters[CHOOSE i \in 1..26 : UpperLetters[i] = c]
    ELSE c

\* str.lower()
Lower(s) == [i \in 1..Len(s) |-> LowerChar(s[i])]

\* s[a:b] with 0-based a (inclusive) and b (exclusive), both within 0..len
Slice(s, a, b) == IF b <= a THEN <<>> ELSE SubSeq(s, a + 1, b)

\* s.startswith(t)
StartsWith(s, t) == Len(t) <= Len(s) /\ SubSeq(s, 1, Len(t)) = t

\* s.endswith(t)
EndsWith(s, t) ==
    Len(t) <= Len(s) /\ SubSeq(s, Len(s) - Len(t) + 1, Len(s)) = t

\* s.find(t, start): 0-based index of the first occurrence at or after
\* start, or -1
Find(s, t, start) ==
    LET hits == {i \in start..(Len(s) - Len(t)) :
                     SubSeq(s, i + 1, i + Len(t)) = t}
    IN IF hits = {} THEN -1
       ELSE CHOOSE i \in hits : \A j \in hits : i <= j

\* t in s
Contains(s, t) == Find(s, t, 0) # -1

\* s.lstrip(chars) / s.rstrip(chars) / s.strip(chars), chars a set
LStrip(s, chars) ==
    LET keep == {i \in 1..Len(s) : s[i] \notin chars}
    IN IF keep = {} THEN <<>>
       ELSE SubSeq(s, CHOOSE i \in keep : \A j \in keep : i <= j, Len(s))

RStrip(s, chars) ==
    LET keep == {i \in 1..Len(s) : s[i] \notin chars}
    IN IF keep = {} THEN <<>>
       ELSE SubSeq(s, 1, CHOOSE i \in keep : \A j \in keep : j <= i)

Strip(s, chars) == RStrip(LStrip(s, chars), chars)

CRLFSet == {CR, LF}
\* what str.strip() and the regex class \s take off (ASCII)
WhiteSpace == {SP, "\t", CR, LF, "\f"}

\* bytes.split(sep) for a non-empty sep: left to right, non-overlapping
RECURSIVE Split(_, _)
Split(s, sep) ==
    LET i == Find(s, sep, 0)
    IN IF i = -1 THEN <<s>>
       ELSE <<Slice(s, 0, i)>> \o Split(Slice(s, i + Len(sep), Len(s)), sep)

\* x or y
Or(x, y) == IF x = None \/ x = <<>> THEN y ELSE x

(***************************************************************************)
(* string literals of the source                                           *)
(***************************************************************************)
S_boundary_eq == <<"b", "o", "u", "n", "d", "a", "r", "y", "=">>
S_dashdash == <<"-", "-">>
S_crlfcrlf == <<CR, LF, CR, LF>>
S_content_disposition ==
    <<"c", "o", "n", "t", "e", "n", "t", "-", "d", "i", "s", "p", "o", "s",
      "i", "t", "i", "o", "n">>
S_filename_eq == <<"f", "i", "l", "e", "n", "a", "m", "e", "=">>
S_content_type_colon ==
    <<"c", "o", "n", "t", "e", "n", "t", "-", "t", "y", "p", "e", ":">>
S_multipart_form_data ==
    <<"m", "u", "l", "t", "i", "p", "a", "r", "t", "/", "f", "o", "r", "m",
      "-", "d", "a", "t", "a">>
S_application_json ==
    <<"a", "p", "p", "l", "i", "c", "a", "t", "i", "o", "n", "/", "j", "s",
      "o", "n">>
S_octet_stream ==
    <<"a", "p", "p", "l", "i", "c", "a", "t", "i", "o", "n", "/", "o", "c",
      "t", "e", "t", "-", "s", "t", "r", "e", "a", "m">>
S_application_pdf ==
    <<"a", "p", "p", "l", "i", "c", "a", "t", "i", "o", "n", "/", "p", "d",
      "f">>
S_image_jpeg == <<"i", "m", "a", "g", "e", "/", "j", "p", "e", "g">>
S_image_png == <<"i", "m", "a", "g", "e", "/", "p", "n", "g">>
S_image_gif == <<"i", "m", "a", "g", "e", "/", "g", "i", "f">>
\* magic numbers; a byte outside ASCII is named by its hex code
Sig_pdf == <<"%", "P", "D", "F">>
Sig_jpeg == <<"xFF", "xD8", "xFF">>
Sig_png == <<"x89", "P", "N", "G", CR, LF, "x1A", LF>>
Sig_gif87 == <<"G", "I", "F", "8", "7", "a">>
Sig_gif89 == <<"G", "I", "F", "8", "9", "a">>

(***************************************************************************)
(* _infer_content_type                                                     *)
(***************************************************************************)
_infer_content_type(data) ==
    IF data = <<>> THEN S_octet_stream
    ELSE IF StartsWith(data, Sig_pdf) THEN S_application_pdf
    ELSE IF StartsWith(data, Sig_jpeg) THEN S_image_jpeg
    ELSE IF StartsWith(data, Sig_png) THEN S_image_png
    ELSE IF Slice(data, 0, IF Len(data) < 6 THEN Len(data) ELSE 6)
                \in {Sig_gif87, Sig_gif89} THEN S_image_gif
    ELSE S_octet_stream

(***************************************************************************)
(* _parse_multipart                                                        *)
(***************************************************************************)
\* re.search(r"boundary=(.+)", content_type): group 1, or None
BoundaryMatch(content_type) ==
    LET i == Find(content_type, S_boundary_eq, 0)
        rest == Slice(content_type, i + Len(S_boundary_eq), Len(content_type))
        nl == {k \in 1..Len(rest) : rest[k] = LF}
    IN IF i = -1 \/ rest = <<>> \/ rest[1] = LF THEN None
       ELSE IF nl = {} THEN rest
       ELSE SubSeq(rest, 1, (CHOOSE k \in nl : \A j \in nl : k <= j) - 1)

\* boundary = m.group(1).strip(), unquoted when quoted on both ends
BoundaryOf(group) ==
    LET b == Strip(group, WhiteSpace)
    IN IF StartsWith(b, <<DQ>>) /\ EndsWith(b, <<DQ>>)
       THEN Slice(b, 1, Len(b) - 1)
       ELSE b

\* re.search(r'filename="([^"]+)"', header_blob, re.IGNORECASE): group 1,
\* or None
FilenameMatch(header_blob) ==
    LET lh == Lower(header_blob)
        pat == S_filename_eq \o <<DQ>>
        close(i) == Find(header_blob, <<DQ>>, i + Len(pat))
        hits == {i \in 0..(Len(lh) - Len(pat)) :
                    /\ SubSeq(lh, i + 1, i + Len(pat)) = pat
                    /\ close(i) > i + Len(pat)}
        first == CHOOSE i \in hits : \A j \in hits : i <= j
    IN IF hits = {} THEN None
       ELSE Slice(header_blob, first + Len(pat), close(first))

\* re.search(r"content-type:\s*([^\r\n]+)", header_blob, re.IGNORECASE):
\* group 1, or None.  \s* is greedy and gives back what the group needs.
ContentTypeMatch(header_blob) ==
    LET lh == Lower(header_blob)
        pat == S_content_type_colon
        n == Len(header_blob)
        \* 0-based starts of group 1 that a match beginning at i allows
        starts(i) == {s \in (i + Len(pat))..(n - 1) :
                         /\ \A k \in (i + Len(pat) + 1)..s :
                                header_blob[k] \in WhiteSpace
                         /\ header_blob[s + 1] \notin CRLFSet}
        hits == {i \in 0..(n - Len(pat)) :
                    /\ SubSeq(lh, i + 1, i + Len(pat)) = pat
                    /\ starts(i) # {}}
        first == CHOOSE i \in hits : \A j \in hits : i <= j
        s0 == CHOOSE s \in starts(first) : \A t \in starts(first) : t <= s
        stops == {k \in s0..(n - 1) : header_blob[k + 1] \in CRLFSet}
        stop == IF stops = {} THEN n
                ELSE CHOOSE k \in stops : \A j \in stops : k <= j
    IN IF hits = {} THEN None ELSE Slice(header_blob, s0, stop)

\* the body of the loop over parts for one part p: None when the loop
\* continues, else the (data_blob, ct, filename) it returns
PartFile(p0) ==
    LET p1 == Strip(p0, CRLFSet)
        p == IF EndsWith(p1, S_dashdash)
             THEN Strip(Slice(p1, 0, Len(p1) - 2), CRLFSet)
             ELSE p1
        header_end == Find(p, S_crlfcrlf, 0)
        header_blob == Slice(p, 0, header_end)
        data_blob == RStrip(Slice(p, header_end + 4, Len(p)), CRLFSet)
        fnm == FilenameMatch(header_blob)
        ctm == ContentTypeMatch(header_blob)
        ct == IF ctm = None THEN None ELSE Strip(ctm, WhiteSpace)
    IN IF p1 = <<>> \/ p1 = S_dashdash THEN None
       ELSE IF header_end = -1 THEN None
       ELSE IF ~Contains(Lower(header_blob), S_content_disposition) THEN None
       ELSE IF ~Contains(Lower(header_blob), S_filename_eq) THEN None
       ELSE IF data_blob = <<>> THEN None
       ELSE <<data_blob, ct, fnm>>

\* for p in parts: the first part the loop returns from, or None
RECURSIVE FirstFile(_, _)
FirstFileFrom(found, parts, i) ==
    IF found # None THEN found ELSE FirstFile(parts, i + 1)
FirstFile(parts, i) ==
    IF i > Len(parts) THEN None
    ELSE FirstFileFrom(PartFile(parts[i]), parts, i)

\* boundary[:40]
BoundaryPreview == 40

\* (file_bytes, file_content_type, filename) and the steps appended to
\* debug_steps
_parse_multipart(body, content_type) ==
    LET m == BoundaryMatch(content_type)
        boundary == BoundaryOf(m)
        parts == Split(body, S_dashdash \o boundary)
        found == FirstFile(parts, 1)
        s_parts == [step |-> "multipart: parts", n |-> Len(parts),
                    text |-> Slice(boundary, 0,
                                   IF Len(boundary) < BoundaryPreview
                                   THEN Len(boundary) ELSE BoundaryPreview)]
    IN IF m = None
       THEN [file_bytes |-> None, ct |-> None, filename |-> None,
             steps |-> <<[step |-> "multipart: missing boundary"]>>]
       ELSE IF found # None
       THEN [file_bytes |-> found[1], ct |-> found[2], filename |-> found[3],
             steps |-> <<s_parts,
                         [step |-> "multipart: extracted file",
                          n |-> Len(found[1]), filename |-> found[3],
                          ct |-> found[2]]>>]
       ELSE [file_bytes |-> None, ct |-> None, filename |-> None,
             steps |-> <<s_parts, [step |-> "multipart: no file part found"]>>]

(***************************************************************************)
(* Request bodies: multipart/form-data bodies as a client builds them      *)
(* (RFC 7578), the input that _parse_multipart reads.                      *)
(***************************************************************************)
S_cd_form_data ==
    <<"C", "o", "n", "t", "e", "n", "t", "-", "D", "i", "s", "p", "o", "s",
      "i", "t", "i", "o", "n", ":", SP, "f", "o", "r", "m", "-", "d", "a",
      "t", "a", ";", SP, "n", "a", "m", "e", "=", DQ, "f", DQ>>
S_sc_filename == <<";", SP>> \o S_filename_eq
S_ct_header == <<"C", "o", "n", "t", "e", "n", "t", "-", "T", "y", "p", "e",
                 ":", SP>>

\* one file part: Content-Disposition with filename="fn", an optional
\* Content-Type header (ct = None: no header), a blank line, the payload
FilePart(fn, ct, payload) ==
    S_cd_form_data \o S_sc_filename \o <<DQ>> \o fn \o <<DQ>> \o <<CR, LF>>
    \o (IF ct = None THEN <<>> ELSE S_ct_header \o ct \o <<CR, LF>>)
    \o <<CR, LF>> \o payload

\* one plain form field: Content-Disposition without filename=
FieldPart(value) == S_cd_form_data \o S_crlfcrlf \o value

\* the body: each part behind a "--boundary" delimiter line, then the
\* closing delimiter "--boundary--"
RECURSIVE MultipartBody(_, _)
MultipartBody(boundary, parts) ==
    IF parts = <<>>
    THEN S_dashdash \o boundary \o S_dashdash \o <<CR, LF>>
    ELSE S_dashdash \o boundary \o <<CR, LF>> \o Head(parts) \o <<CR, LF>>
         \o MultipartBody(boundary, Tail(parts))

(***************************************************************************)
(* State of one request handled by main                                    *)
(***************************************************************************)
VARIABLES
    req,          \* the HttpRequest: method, body, Content-Type header
    env,          \* os.environ as _get_config reads it
    pc,           \* where main stands: start, analyze, poll, done
    debug_steps,  \* main's debug_steps list
    file_bytes,   \* main's locals after _extract_upload
    file_ct,
    filename,
    op_url,       \* main's op_url
    attempt,      \* _poll_result's loop variable
    calls,        \* what went out: POST / GET to the service, time.sleep
    submit_resp,  \* the analysis service's answers to the POST (at most one)
    poll_log,     \* the analysis service's answers to the GETs, in order
    response,     \* the HttpResponse main returned (at most one)
    mp_in,        \* _parse_multipart checked alone: its arguments
    mp_out,       \* and what it returned (<<>> before the call)
    peer          \* two calls of main at once: the locals of the call
                  \* that is not running at the moment

vars == <<req, env, pc, debug_steps, file_bytes, file_ct, filename, op_url,
          attempt, calls, submit_resp, poll_log, response, mp_in, mp_out,
          peer>>

main_vars == <<req, env, pc, debug_steps, file_bytes, file_ct, filename,
               op_url, attempt, calls, submit_resp, poll_log, response>>

(***************************************************************************)
(* _get_config                                                             *)
(***************************************************************************)
Digits == <<"0", "1", "2", "3", "4", "5", "6", "7", "8", "9">>
IsDigit(c) == \E d \in 1..10 : Digits[d] = c
DigitVal(c) == (CHOOSE d \in 1..10 : Digits[d] = c) - 1

RECURSIVE DecimalVal(_)
DecimalVal(ds) ==
    IF ds = <<>> THEN 0
    ELSE 10 * DecimalVal(SubSeq(ds, 1, Len(ds) - 1)) + DigitVal(ds[Len(ds)])

\* int(s) for a str: [ok |-> FALSE] is ValueError
IntOf(s) ==
    LET t == Strip(s, WhiteSpace)
        signed == t # <<>> /\ t[1] \in {"-", "+"}
        ds == IF signed THEN Tail(t) ELSE t
    IN IF ds = <<>> \/ \E i \in 1..Len(ds) : ~IsDigit(ds[i])
       THEN [ok |-> FALSE, value |-> 0]
       ELSE [ok |-> TRUE,
             value |-> IF signed /\ t[1] = "-" THEN 0 - DecimalVal(ds)
                       ELSE DecimalVal(ds)]

\* float(s) for a str of the form [sign] digits [. digits]; what
\* time.sleep looks at is whether the value is below zero
FloatOf(s) ==
    LET t == Strip(s, WhiteSpace)
        signed == t # <<>> /\ t[1] \in {"-", "+"}
        u == IF signed THEN Tail(t) ELSE t
        dot == Find(u, <<".">>, 0)
        ip == IF dot = -1 THEN u ELSE Slice(u, 0, dot)
        fp == IF dot = -1 THEN <<>> ELSE Slice(u, dot + 1, Len(u))
        ds == ip \o fp
    IN IF ds = <<>> \/ \E i \in 1..Len(ds) : ~IsDigit(ds[i])
       THEN [ok |-> FALSE, negative |-> FALSE]
       ELSE [ok |-> TRUE,
             negative |-> signed /\ t[1] = "-" /\ DecimalVal(ds) > 0]

\* d.get(name, default), with None for a name d does not hold
GetOr(value, default) == IF value = None THEN default ELSE value

S_default_attempts == <<"1", "5">>
S_default_poll_wait == <<"1", ".", "0">>

\* raised: int() or float() raised ValueError.  api_version and model_id
\* only shape the analyze URL and are left out.
_get_config(e) ==
    LET a == IntOf(GetOr(e.AZURE_DI_POLL_ATTEMPTS, S_default_attempts))
        w == FloatOf(GetOr(e.AZURE_DI_MAX_POLL_WAIT, S_default_poll_wait))
        endpoint == Or(Or(Or(Or(e.DOCINTEL_ENDPOINT,
                                e.AZURE_DOCUMENT_INTELLIGENCE_ENDPOINT),
                             e.AZURE_DOCINTEL_ENDPOINT),
                          e.AZURE_DI_ENDPOINT), <<>>)
        key == Or(Or(Or(Or(e.DOCINTEL_KEY,
                           e.AZURE_DOCUMENT_INTELLIGENCE_KEY),
                        e.AZURE_DOCINTEL_KEY),
                     e.AZURE_DI_API_KEY), <<>>)
    IN [raised |-> ~a.ok \/ ~w.ok,
        endpoint |-> RStrip(endpoint, {"/"}),
        key |-> key,
        poll_attempts |-> a.value,
        poll_sleep_negative |-> w.negative]

(***************************************************************************)
(* _extract_upload                                                         *)
(***************************************************************************)
\* an error dict as the helpers build it; main adds "debug"
Err(message) ==
    [ok |-> FALSE, message |-> message, http |-> 0, raw |-> <<>>,
     error |-> <<>>, ocr_text |-> None, ocr_text_snippet |-> None,
     debug |-> None, operation_url |-> None]

\* the multipart branch of _extract_upload: mp is what _parse_multipart
\* returned, s_ct the "request Content-Type" step
MultipartUpload(mp, s_ct) ==
    IF mp.file_bytes = None \/ mp.file_bytes = <<>>
    THEN [file_bytes |-> None, ct |-> None, filename |-> None,
          err |-> <<Err("No file found in multipart/form-data.")>>,
          steps |-> <<s_ct>> \o mp.steps]
    ELSE [file_bytes |-> mp.file_bytes,
          ct |-> Or(mp.ct, _infer_content_type(mp.file_bytes)),
          filename |-> mp.filename,
          err |-> <<>>, steps |-> <<s_ct>> \o mp.steps]

\* the raw-bytes branch of _extract_upload
RawUpload(body, raw_ct, s_ct) ==
    [file_bytes |-> body,
     ct |-> IF raw_ct # <<>> /\ ~StartsWith(Lower(raw_ct), S_application_json)
            THEN raw_ct
            ELSE _infer_content_type(body),
     filename |-> None, err |-> <<>>, steps |-> <<s_ct>>]

\* ExtractFrom without the check for an empty body
ExtractFrom_NoEmptyCheck(body, header, ct) ==
    IF StartsWith(ct, S_multipart_form_data)
    THEN MultipartUpload(_parse_multipart(body, GetOr(header, <<>>)),
                         [step |-> "request Content-Type", text |-> ct])
    ELSE RawUpload(body, Or(header, <<>>),
                   [step |-> "request Content-Type", text |-> ct])

\* ExtractFrom taking the raw body when the multipart body holds no file
MultipartOrRaw(mp, body, header, s_ct) ==
    IF mp.file_bytes = None THEN RawUpload(body, Or(header, <<>>), s_ct)
    ELSE MultipartUpload(mp, s_ct)
ExtractFrom_RawFallback(body, header, ct) ==
    IF body = <<>>
    THEN [file_bytes |-> None, ct |-> None, filename |-> None,
          err |-> <<Err("Request body is empty.")>>, steps |-> <<>>]
    ELSE IF StartsWith(ct, S_multipart_form_data)
    THEN MultipartOrRaw(_parse_multipart(body, GetOr(header, <<>>)),
                        body, header,
                        [step |-> "request Content-Type", text |-> ct])
    ELSE RawUpload(body, Or(header, <<>>),
                   [step |-> "request Content-Type", text |-> ct])

\* _extract_upload with body = req.get_body() or b"", header =
\* req.headers.get("Content-Type") and ct = (header or "").lower()
ExtractFrom(body, header, ct) ==
    IF body = <<>>
    THEN [file_bytes |-> None, ct |-> None, filename |-> None,
          err |-> <<Err("Request body is empty.")>>, steps |-> <<>>]
    ELSE IF StartsWith(ct, S_multipart_form_data)
    THEN MultipartUpload(_parse_multipart(body, GetOr(header, <<>>)),
                         [step |-> "request Content-Type", text |-> ct])
    ELSE RawUpload(body, Or(header, <<>>),
                   [step |-> "request Content-Type", text |-> ct])

\* (bytes, content_type, filename, err) and the steps appended to
\* debug_steps; err is <<>> for None
_extract_upload(r) ==
    ExtractFrom(Or(r.body, <<>>), r.content_type,
                Lower(Or(r.content_type, <<>>)))

(***************************************************************************)
(* _analyze_document                                                       *)
(***************************************************************************)
\* dict(resp.getheaders()).get(name): headers is the list of (name, value)
\* pairs as the service sent them; a later pair of the same name wins
HGet(headers, name) ==
    LET at == {i \in 1..Len(headers) : headers[i][1] = name}
    IN IF at = {} THEN None
       ELSE headers[CHOOSE i \in at : \A j \in at : j <= i][2]

\* the three lookups of the operation-location header
OpLocation(resp_headers) ==
    Or(Or(HGet(resp_headers, "operation-location"),
          HGet(resp_headers, "Operation-Location")),
       HGet(resp_headers, "Operation-location"))

\* SubmitRejected letting every answer through to the header lookup
SubmitRejected_Never(status) == FALSE

\* status != 202
SubmitRejected(status) == status # 202

\* what _analyze_document does with the answer to its POST: (op_location,
\* err) and the steps appended; err is <<>> for None
SubmitResult(resp) ==
    LET op_location == OpLocation(resp.headers)
        s_op == [step |-> "operation-location", text |-> op_location]
    IN IF SubmitRejected(resp.status)
       THEN [op_location |-> None,
             err |-> <<[Err("Analyze call failed with HTTP")
                           EXCEPT !.http = resp.status]>>,
             steps |-> <<[step |-> "Analyze HTTP", n |-> resp.status]>>]
       ELSE IF op_location = None \/ op_location = <<>>
       THEN [op_location |-> None,
             err |-> <<Err("Analyze call did not return operation-location header.")>>,
             steps |-> <<s_op>>]
       ELSE [op_location |-> op_location, err |-> <<>>, steps |-> <<s_op>>]

(***************************************************************************)
(* _poll_result                                                            *)
(***************************************************************************)
S_succeeded == <<"s", "u", "c", "c", "e", "e", "d", "e", "d">>
S_Succeeded == <<"S", "u", "c", "c", "e", "e", "d", "e", "d">>
S_failed == <<"f", "a", "i", "l", "e", "d">>
S_Failed == <<"F", "a", "i", "l", "e", "d">>
S_running == <<"r", "u", "n", "n", "i", "n", "g">>
S_notStarted == <<"n", "o", "t", "S", "t", "a", "r", "t", "e", "d">>
S_partiallySucceeded ==
    <<"p", "a", "r", "t", "i", "a", "l", "l", "y", "S", "u", "c", "c", "e",
      "e", "d", "e", "d">>

\* A decoded JSON object of a poll answer: its members status, content and
\* analyzeResult.  Absent: the object has no such member; None: JSON null.
\* analyzeResult is absent, a JSON value that is no object (kind "null")
\* or an object with members status and content.
Absent == <<"Absent">>
NoAnalyzeResult == [kind |-> "absent", status |-> Absent, content |-> Absent]
NullAnalyzeResult == [kind |-> "null", status |-> Absent, content |-> Absent]
AnalyzeResultObj(status, content) ==
    [kind |-> "dict", status |-> status, content |-> content]
\* an analyzeResult object without content that holds pages: a list of
\* pages, each the list of the content members of its lines
AnalyzeResultPages(status, pages) ==
    [kind |-> "dict", status |-> status, content |-> Absent, pages |-> pages]
Payload(status, content, ar) ==
    [status |-> status, content |-> content, analyzeResult |-> ar]

\* d.get(member)
JGet(member) == IF member = Absent THEN None ELSE member

\* data.get("status") or data.get("analyzeResult", {}).get("status");
\* raised: AttributeError, analyzeResult is there and has no get
StatusField(data) ==
    LET top == JGet(data.status)
    IN IF top # None /\ top # <<>>
       THEN [raised |-> FALSE, value |-> top]
       ELSE IF data.analyzeResult.kind = "null"
       THEN [raised |-> TRUE, value |-> None]
       ELSE [raised |-> FALSE, value |-> JGet(data.analyzeResult.status)]

\* for attempt in range(attempts): whether the loop body runs again
InRange(a, attempts) == a < attempts

\* StatusClass returning the payload of a failed analysis as a result
StatusClass_FailedSucceeds(status_field) ==
    IF status_field \in {S_succeeded, S_Succeeded, S_failed, S_Failed}
    THEN "succeeded"
    ELSE "other"

\* the two tests on status_field: in ("succeeded", "Succeeded"), in
\* ("failed", "Failed")
StatusClass(status_field) ==
    IF status_field \in {S_succeeded, S_Succeeded} THEN "succeeded"
    ELSE IF status_field \in {S_failed, S_Failed} THEN "failed"
    ELSE "other"

\* PollRejected taking every HTTP status for an answer to decode
PollRejected_Never(status) == FALSE

\* status != 200
PollRejected(status) == status # 200

\* One answer to the GET of an iteration: the URLError that _http_get
\* turns into RuntimeError, or an HTTP status with a body that is no JSON
\* ("invalid"), a JSON value that is no object ("nonobject") or a JSON
\* object ("object", data).
\* kind: "raise" (an exception leaves _poll_result), "error" (return None,
\* err), "data" (return data, None), "continue" (time.sleep, next attempt)
PollOutcome(resp) ==
    LET sf == StatusField(resp.data)
        s_status == [step |-> "status", text |-> sf.value]
    IN IF resp.urlerror
       THEN [kind |-> "raise", err |-> <<>>, steps |-> <<>>]
       ELSE IF PollRejected(resp.http)
       THEN [kind |-> "error",
             err |-> <<[Err("Poll failed with HTTP") EXCEPT !.http = resp.http]>>,
             steps |-> <<[step |-> "Poll HTTP", n |-> resp.http]>>]
       ELSE IF resp.json = "invalid"
       THEN [kind |-> "error",
             err |-> <<Err("Failed to decode JSON from poll response.")>>,
             steps |-> <<[step |-> "JSON decode error"]>>]
       ELSE IF resp.json = "nonobject" \/ sf.raised
       THEN [kind |-> "raise", err |-> <<>>, steps |-> <<>>]
       ELSE IF StatusClass(sf.value) = "succeeded"
       THEN [kind |-> "data", err |-> <<>>, steps |-> <<s_status>>]
       ELSE IF StatusClass(sf.value) = "failed"
       THEN [kind |-> "error",
             err |-> <<[Err("Analyze operation reported failed.")
                           EXCEPT !.raw = <<resp.data>>]>>,
             steps |-> <<s_status>>]
       ELSE [kind |-> "continue", err |-> <<>>, steps |-> <<s_status>>]

(***************************************************************************)
(* _extract_text                                                           *)
(***************************************************************************)
SnippetLen == 1000

\* (snippet, full_text)
_extract_text(result) ==
    LET ar == result.analyzeResult
        full_text ==
            IF result.content # Absent THEN Or(JGet(result.content), <<>>)
            ELSE IF ar.kind = "dict" THEN Or(JGet(ar.content), <<>>)
            ELSE <<>>
    IN [snippet |-> Slice(full_text, 0,
                          IF Len(full_text) < SnippetLen
                          THEN Len(full_text) ELSE SnippetLen),
        full_text |-> full_text]

(***************************************************************************)
(* main: the responses it builds                                           *)
(***************************************************************************)
\* a JSON response: _json_response(req, body, status_code)
_json_response(body, status_code) ==
    [status_code |-> status_code, body |-> <<body>>]

\* err["debug"] = {"steps": debug_steps}; status_code=400
MainUploadError(err, steps) ==
    _json_response([err EXCEPT !.debug = steps], 400)

\* the error of _analyze_document: status_code=200
MainAnalyzeError(err, steps) ==
    _json_response([err EXCEPT !.debug = steps], 200)

\* MainPollError answering 500 for an upstream failure
MainPollError_500(err, steps) ==
    _json_response([err EXCEPT !.debug = steps], 500)

\* the error of _poll_result: status_code=200
MainPollError(err, steps) ==
    _json_response([err EXCEPT !.debug = steps], 200)

\* MainUnhandled answering with a trace of its own instead of the one
\* collected so far
MainUnhandled_NoTrace(steps) ==
    _json_response([Err("Unhandled exception in ocr_http.")
                       EXCEPT !.debug = <<>>, !.error = <<"exc">>], 500)

\* the except branch: status_code=500
MainUnhandled(steps) ==
    _json_response([Err("Unhandled exception in ocr_http.")
                       EXCEPT !.debug = steps, !.error = <<"exc">>], 500)

\* MainResult without the test for a blank text: every succeeded
\* analysis is answered "OCR succeeded"
MainResult_NoBlankCheck(result, steps, url) ==
    _json_response(
        [ok |-> TRUE, message |-> "OCR succeeded.", http |-> 0,
         raw |-> <<>>, error |-> <<>>,
         ocr_text |-> _extract_text(result).full_text,
         ocr_text_snippet |-> _extract_text(result).snippet,
         debug |-> steps, operation_url |-> url], 200)

\* after a successful poll: _extract_text, then "OCR returned no text" or
\* "OCR succeeded"
MainResult(result, steps, url) ==
    LET t == _extract_text(result)
    IN IF Strip(t.full_text, WhiteSpace) = <<>>
       THEN _json_response(
                [Err("OCR returned no text. Try a clearer photo or PDF.")
                    EXCEPT !.debug = steps, !.operation_url = url], 200)
       ELSE _json_response(
                [ok |-> TRUE, message |-> "OCR succeeded.", http |-> 0,
                 raw |-> <<>>, error |-> <<>>,
                 ocr_text |-> t.full_text, ocr_text_snippet |-> t.snippet,
                 debug |-> steps, operation_url |-> url], 200)

\* str.upper()
Upper(s) ==
    [i \in 1..Len(s) |->
        IF \E k \in 1..26 : LowerLetters[k] = s[i]
        THEN UpperLetters[CHOOSE k \in 1..26 : LowerLetters[k] = s[i]]
        ELSE s[i]]

S_OPTIONS == <<"O", "P", "T", "I", "O", "N", "S">>
S_POST == <<"P", "O", "S", "T">>

\* req.method and req.method.upper() == "OPTIONS"
IsPreflight(r) ==
    r.method # None /\ r.method # <<>> /\ Upper(r.method) = S_OPTIONS

\* the records of calls
PostCall(data, ct) == [op |-> "POST", data |-> data, ct |-> ct, url |-> None]
GetCall(url) == [op |-> "GET", data |-> None, ct |-> None, url |-> url]
SleepCall == [op |-> "SLEEP", data |-> None, ct |-> None, url |-> None]

(***************************************************************************)
(* Inputs: requests, environments and the analysis service's answers       *)
(***************************************************************************)
\* most poll attempts an environment of the model asks for
MaxAttempts == 3
\* longest file payload of the multipart bodies _parse_multipart is
\* checked on alone
MaxPayloadLen == 2

Req(method, body, content_type) ==
    [method |-> method, body |-> body, content_type |-> content_type]

Boundary == <<"B">>
\* Content-Type: multipart/form-data; boundary=B
H_plain == S_multipart_form_data \o <<";", SP>> \o S_boundary_eq \o Boundary
\* Content-Type: Multipart/Form-Data; boundary="B"
H_quoted == <<"M">> \o SubSeq(S_multipart_form_data, 2, 10) \o <<"F">>
            \o SubSeq(S_multipart_form_data, 12, 15) \o <<"D">>
            \o SubSeq(S_multipart_form_data, 17, 19) \o <<";", SP>>
            \o S_boundary_eq \o <<DQ>> \o Boundary \o <<DQ>>
\* Content-Type: multipart/form-data (no boundary parameter)
H_noboundary == S_multipart_form_data

PdfBytes == <<"%", "P", "D", "F", "1">>

\* base64 (RFC 4648) of a byte sequence, for the JSON bodies a client
\* sends: {"bytes_b64":"..."}
B64Alphabet ==
    <<"A","B","C","D","E","F","G","H","I","J","K","L","M","N","O","P",
      "Q","R","S","T","U","V","W","X","Y","Z","a","b","c","d","e","f",
      "g","h","i","j","k","l","m","n","o","p","q","r","s","t","u","v",
      "w","x","y","z","0","1","2","3","4","5","6","7","8","9","+","/">>
\* the ASCII codes of the bytes the payloads are made of
AsciiTable == <<<<"A", 65>>, <<"X", 88>>, <<"%", 37>>, <<"P", 80>>,
                <<"D", 68>>, <<"F", 70>>, <<"1", 49>>, <<"-", 45>>,
                <<CR, 13>>, <<LF, 10>>>>
Ord(c) == AsciiTable[CHOOSE i \in 1..Len(AsciiTable) : AsciiTable[i][1] = c][2]
Sextet(n) == B64Alphabet[n + 1]

RECURSIVE B64Encode(_)
B64Encode(bytes) ==
    IF bytes = <<>> THEN <<>>
    ELSE IF Len(bytes) = 1
    THEN LET n == Ord(bytes[1]) * 16
         IN <<Sextet(n \div 64), Sextet(n % 64), "=", "=">>
    ELSE IF Len(bytes) = 2
    THEN LET n == (Ord(bytes[1]) * 256 + Ord(bytes[2])) * 4
         IN <<Sextet(n \div 4096), Sextet((n \div 64) % 64), Sextet(n % 64),
              "=">>
    ELSE LET n == Ord(bytes[1]) * 65536 + Ord(bytes[2]) * 256 + Ord(bytes[3])
         IN <<Sextet(n \div 262144), Sextet((n \div 4096) % 64),
              Sextet((n \div 64) % 64), Sextet(n % 64)>>
            \o B64Encode(SubSeq(bytes, 4, Len(bytes)))

S_bytes_b64 == <<"b", "y", "t", "e", "s", "_", "b", "6", "4">>
S_data_b64 == <<"d", "a", "t", "a", "_", "b", "6", "4">>

\* the JSON text {"<field>":"<base64 of bytes>"}
JsonB64Body(field, bytes) ==
    <<"{", DQ>> \o field \o <<DQ, ":", DQ>> \o B64Encode(bytes) \o <<DQ, "}">>

\* the documents the JSON bodies of the model carry
JsonDocuments == {<<"A">>, PdfBytes}

\* the lists of parts of the multipart requests of the model: those with
\* plain form fields only, and those with a file part
FieldsOnlyParts ==
    { <<FieldPart(<<"v">>)>>,
      <<FieldPart(<<"v">>), FieldPart(<<>>)>> }
RequestParts ==
    FieldsOnlyParts
    \cup { <<FilePart(<<"a">>, None, <<"X">>)>>,
           <<FilePart(<<"a">>, S_application_pdf, PdfBytes)>>,
           <<FieldPart(<<"v">>), FilePart(<<"a">>, None, <<"X">>)>>,
           <<FilePart(<<"a">>, None, <<>>)>> }

\* the requests main is run on
Requests ==
    {Req(S_POST, <<>>, ct) :
        ct \in {None, S_application_json, S_application_pdf, H_plain}}
    \cup {Req(S_POST, PdfBytes, ct) :
        ct \in {None, S_application_pdf, S_application_json}}
    \cup {Req(S_POST, JsonB64Body(f, d), ct) :
        f \in {S_bytes_b64, S_data_b64}, d \in JsonDocuments,
        ct \in {S_application_json, H_plain}}
    \cup {Req(S_POST, MultipartBody(Boundary, ps), h) :
        ps \in RequestParts, h \in {H_plain, H_quoted}}
    \cup {Req(S_POST, MultipartBody(Boundary, <<FilePart(<<"a">>, None, <<"X">>)>>),
              H_noboundary)}
    \cup {Req(m, PdfBytes, S_application_pdf) : m \in {S_OPTIONS, Lower(S_OPTIONS)}}

\* os.environ: the variables _get_config reads, None when unset
Environ(endpoint, key, attempts, wait) ==
    [DOCINTEL_ENDPOINT |-> None,
     AZURE_DOCUMENT_INTELLIGENCE_ENDPOINT |-> None,
     AZURE_DOCINTEL_ENDPOINT |-> None,
     AZURE_DI_ENDPOINT |-> endpoint,
     DOCINTEL_KEY |-> None,
     AZURE_DOCUMENT_INTELLIGENCE_KEY |-> None,
     AZURE_DOCINTEL_KEY |-> None,
     AZURE_DI_API_KEY |-> key,
     AZURE_DI_POLL_ATTEMPTS |-> attempts,
     AZURE_DI_MAX_POLL_WAIT |-> wait]

S_endpoint == <<"h", "/">>
S_key == <<"k">>
DigitStr(n) == <<Digits[n + 1]>>

\* the environments of the model: AZURE_DI_POLL_ATTEMPTS is always set
\* (0..MaxAttempts, a negative number, or no number), the endpoint or the
\* key may be missing, the poll wait may be unset, zero, negative or no
\* number
Environs ==
    {Environ(S_endpoint, S_key, DigitStr(n), None) : n \in 0..MaxAttempts}
    \cup {Environ(S_endpoint, S_key, a, None) : a \in {<<"-", "1">>, <<"x">>}}
    \cup {Environ(S_endpoint, S_key, DigitStr(2), w) :
             w \in {<<"0">>, <<"-", "1">>, <<"x">>}}
    \cup {Environ(<<"/">>, S_key, DigitStr(1), None),
          Environ(S_endpoint, None, DigitStr(1), None),
          Environ(S_endpoint, S_key, DigitStr(1), <<"-", "1">>)}

U1 == <<"u", "1">>

\* an answer to the submit POST: HTTP status and headers
SubmitResponse(status, headers) == [status |-> status, headers |-> headers]

\* the spellings of the operation-location header the service may use
HeaderSpellings ==
    {"operation-location", "Operation-Location", "Operation-location",
     "OPERATION-LOCATION"}

SubmitResponses ==
    {SubmitResponse(st, hs) :
        st \in {200, 202, 500},
        hs \in {<<>>, <<<<"operation-location", <<>>>>>>}
               \cup {<<<<h, U1>>>> : h \in HeaderSpellings}}

\* an answer to a poll GET
PollResponse(http, json, data) ==
    [urlerror |-> FALSE, http |-> http, json |-> json, data |-> data]
EmptyObject == Payload(Absent, Absent, NoAnalyzeResult)
PollURLError ==
    [urlerror |-> TRUE, http |-> 0, json |-> "invalid", data |-> EmptyObject]

T_Hi == <<"H", "i">>
T_Hello == <<"H", "e", "l", "l", "o">>
T_World == <<"W", "o", "r", "l", "d">>

\* the JSON objects the service answers a poll with
PollPayloads ==
    { Payload(S_running, Absent, NoAnalyzeResult),
      Payload(Absent, Absent, AnalyzeResultObj(S_notStarted, Absent)),
      Payload(S_partiallySucceeded, Absent, AnalyzeResultObj(Absent, T_Hi)),
      EmptyObject,
      Payload(Absent, Absent, NullAnalyzeResult),
      Payload(S_succeeded, Absent, AnalyzeResultObj(Absent, T_Hi)),
      Payload(S_succeeded, T_Hi, NoAnalyzeResult),
      Payload(S_succeeded, Absent, NoAnalyzeResult),
      Payload(Absent, Absent, AnalyzeResultObj(S_Succeeded, <<SP>>)),
      Payload(S_succeeded, Absent,
              AnalyzeResultPages(Absent, <<<<T_Hello>>, <<T_World>>>>)),
      Payload(S_failed, Absent, NoAnalyzeResult),
      Payload(Absent, Absent, AnalyzeResultObj(S_Failed, T_Hi)) }

PollResponses ==
    {PollURLError,
     PollResponse(500, "invalid", EmptyObject),
     PollResponse(200, "invalid", EmptyObject),
     PollResponse(200, "nonobject", EmptyObject)}
    \cup {PollResponse(200, "object", d) : d \in PollPayloads}

\* _parse_multipart alone: a Content-Type header and the parts of the body
PartDesc(file, fn, ct, payload) ==
    [file |-> file, filename |-> fn, ct |-> ct, payload |-> payload]
PartBytes(d) ==
    IF d.file THEN FilePart(d.filename, d.ct, d.payload)
    ELSE FieldPart(d.payload)
PartsBytes(ds) == [i \in 1..Len(ds) |-> PartBytes(ds[i])]

PayloadBytes == {"X", CR, LF, "-"}
RECURSIVE SeqsUpTo(_, _)
SeqsUpTo(S, n) ==
    IF n = 0 THEN {<<>>}
    ELSE LET shorter == SeqsUpTo(S, n - 1)
         IN shorter \cup {Append(q, x) : q \in shorter, x \in S}
Payloads == SeqsUpTo(PayloadBytes, MaxPayloadLen) \ {<<>>}
Filenames == {<<"a">>, <<"b", SP, "c">>}

ParseInputs ==
    {[content_type |-> h, parts |-> <<PartDesc(TRUE, fn, ct, pl)>>] :
        h \in {H_plain, H_quoted}, fn \in Filenames,
        ct \in {None, S_application_pdf}, pl \in Payloads}
    \cup {[content_type |-> H_plain, parts |-> ps] :
        ps \in { <<PartDesc(FALSE, None, None, <<"v">>)>>,
                 <<PartDesc(FALSE, None, None, <<"v">>),
                   PartDesc(FALSE, None, None, <<>>)>>,
                 <<PartDesc(FALSE, None, None, <<"v">>),
                   PartDesc(TRUE, <<"a">>, None, <<"X">>)>>,
                 <<PartDesc(TRUE, <<"a">>, None, <<>>),
                   PartDesc(TRUE, <<"b", SP, "c">>, None, <<"X">>)>>,
                 <<PartDesc(TRUE, <<"a">>, None, <<"X">>),
                   PartDesc(TRUE, <<"b", SP, "c">>, None, <<"-">>)>> }}

NoParseInput == [content_type |-> None, parts |-> <<>>]
NoRequest == Req(None, <<>>, None)

\* the locals of a call of main that has not started on request r
Invocation(r) ==
    [req |-> r, pc |-> "start", debug_steps |-> <<>>, file_bytes |-> None,
     file_ct |-> None, filename |-> None, op_url |-> None, attempt |-> 0,
     calls |-> <<>>, submit_resp |-> <<>>, poll_log |-> <<>>,
     response |-> <<>>]
\* no second call
NoPeer == [Invocation(NoRequest) EXCEPT !.pc = "none"]

(***************************************************************************)
(* main, step by step: one action per stretch of code between two calls    *)
(* to the outside                                                          *)
(***************************************************************************)
Init ==
    /\ req \in Requests
    /\ env \in Environs
    /\ pc = "start"
    /\ debug_steps = <<>>
    /\ file_bytes = None
    /\ file_ct = None
    /\ filename = None
    /\ op_url = None
    /\ attempt = 0
    /\ calls = <<>>
    /\ submit_resp = <<>>
    /\ poll_log = <<>>
    /\ response = <<>>
    /\ mp_in = NoParseInput
    /\ mp_out = <<>>
    /\ peer = NoPeer

\* main returns resp
Return(resp) ==
    /\ response' = <<resp>>
    /\ pc' = "done"

\* the CORS preflight: 204, nothing else happens
Preflight ==
    /\ pc = "start"
    /\ IsPreflight(req)
    /\ Return([status_code |-> 204, body |-> <<>>])
    /\ UNCHANGED <<req, env, debug_steps, file_bytes, file_ct, filename,
                   op_url, attempt, calls, submit_resp, poll_log, mp_in,
                   mp_out, peer>>

\* what main does with u, the result of _extract_upload
AfterUpload(u) ==
    IF u.err # <<>>
    THEN /\ debug_steps' = debug_steps \o u.steps
         /\ Return(MainUploadError(u.err[1], debug_steps'))
         /\ UNCHANGED <<file_bytes, file_ct, filename>>
    ELSE /\ debug_steps' =
                debug_steps \o u.steps
                \o <<[step |-> "upload", filename |-> u.filename,
                      ct |-> u.ct, n |-> Len(Or(u.file_bytes, <<>>))]>>
         /\ file_bytes' = u.file_bytes
         /\ file_ct' = u.ct
         /\ filename' = u.filename
         /\ pc' = "analyze"
         /\ UNCHANGED response

\* _extract_upload and what main does with its result
ExtractUpload ==
    /\ pc = "start"
    /\ ~IsPreflight(req)
    /\ AfterUpload(_extract_upload(req))
    /\ UNCHANGED <<req, env, op_url, attempt, calls, submit_resp, poll_log,
                   mp_in, mp_out, peer>>

\* _analyze_document: _get_config raises ValueError
AnalyzeConfigRaises ==
    /\ pc = "analyze"
    /\ _get_config(env).raised
    /\ Return(MainUnhandled(debug_steps))
    /\ UNCHANGED <<req, env, debug_steps, file_bytes, file_ct, filename,
                   op_url, attempt, calls, submit_resp, poll_log, mp_in,
                   mp_out, peer>>

Configured(cfg) == ~cfg.raised /\ cfg.endpoint # <<>> /\ cfg.key # <<>>

\* _analyze_document: not endpoint or not key
AnalyzeNotConfigured ==
    /\ pc = "analyze"
    /\ ~_get_config(env).raised
    /\ ~Configured(_get_config(env))
    /\ debug_steps' = Append(debug_steps, [step |-> "Missing endpoint or key"])
    /\ Return(MainAnalyzeError(
           Err("Azure Document Intelligence endpoint or key is not configured."),
           debug_steps'))
    /\ UNCHANGED <<req, env, file_bytes, file_ct, filename, op_url, attempt,
                   calls, submit_resp, poll_log, mp_in, mp_out, peer>>

\* the arguments main and _analyze_document give to _http_post
SubmitData == Or(file_bytes, <<>>)
SubmitContentType == Or(Or(file_ct, S_octet_stream), S_octet_stream)
CallingAnalyze ==
    [step |-> "Calling analyze", ct |-> SubmitContentType,
     n |-> Len(SubmitData)]

\* _analyze_document: the POST fails with URLError, _http_post raises
\* RuntimeError
AnalyzeSubmitFails ==
    /\ pc = "analyze"
    /\ Configured(_get_config(env))
    /\ calls' = Append(calls, PostCall(SubmitData, SubmitContentType))
    /\ debug_steps' = Append(debug_steps, CallingAnalyze)
    /\ Return(MainUnhandled(debug_steps'))
    /\ UNCHANGED <<req, env, file_bytes, file_ct, filename, op_url, attempt,
                   submit_resp, poll_log, mp_in, mp_out, peer>>

\* _analyze_document: the POST is answered
AnalyzeSubmit ==
    /\ pc = "analyze"
    /\ Configured(_get_config(env))
    /\ \E resp \in SubmitResponses :
          LET r == SubmitResult(resp)
          IN /\ calls' = Append(calls, PostCall(SubmitData, SubmitContentType))
             /\ submit_resp' = <<resp>>
             /\ debug_steps' = Append(debug_steps, CallingAnalyze) \o r.steps
             /\ IF r.err # <<>>
                THEN /\ Return(MainAnalyzeError(r.err[1], debug_steps'))
                     /\ UNCHANGED op_url
                ELSE /\ op_url' = r.op_location
                     /\ pc' = "poll"
                     /\ UNCHANGED response
    /\ UNCHANGED <<req, env, file_bytes, file_ct, filename, attempt, poll_log,
                   mp_in, mp_out, peer>>

\* _poll_result: one iteration of the loop
PollAttempt ==
    /\ pc = "poll"
    /\ InRange(attempt, _get_config(env).poll_attempts)
    /\ \E resp \in PollResponses :
          LET o == PollOutcome(resp)
              steps == Append(debug_steps,
                              [step |-> "Polling result attempt",
                               n |-> attempt + 1,
                               of |-> _get_config(env).poll_attempts])
                       \o o.steps
              sleep_raises == _get_config(env).poll_sleep_negative
          IN /\ poll_log' = Append(poll_log, resp)
             /\ debug_steps' = steps
             /\ CASE o.kind = "raise" ->
                       /\ calls' = Append(calls, GetCall(op_url))
                       /\ Return(MainUnhandled(steps))
                       /\ UNCHANGED attempt
                  [] o.kind = "error" ->
                       /\ calls' = Append(calls, GetCall(op_url))
                       /\ Return(MainPollError(o.err[1], steps))
                       /\ UNCHANGED attempt
                  [] o.kind = "data" ->
                       /\ calls' = Append(calls, GetCall(op_url))
                       /\ Return(MainResult(resp.data, steps, op_url))
                       /\ UNCHANGED attempt
                  [] o.kind = "continue" /\ sleep_raises ->
                       /\ calls' = Append(calls, GetCall(op_url))
                       /\ Return(MainUnhandled(steps))
                       /\ UNCHANGED attempt
                  [] o.kind = "continue" /\ ~sleep_raises ->
                       /\ calls' = calls \o <<GetCall(op_url), SleepCall>>
                       /\ attempt' = attempt + 1
                       /\ UNCHANGED <<pc, response>>
    /\ UNCHANGED <<req, env, file_bytes, file_ct, filename, op_url,
                   submit_resp, mp_in, mp_out, peer>>

\* _poll_result: the loop is over, "Timed out waiting for analyze result."
PollTimeout ==
    /\ pc = "poll"
    /\ ~InRange(attempt, _get_config(env).poll_attempts)
    /\ Return(MainPollError(Err("Timed out waiting for analyze result."),
                            debug_steps))
    /\ UNCHANGED <<req, env, debug_steps, file_bytes, file_ct, filename,
                   op_url, attempt, calls, submit_resp, poll_log, mp_in,
                   mp_out, peer>>

Next ==
    \/ Preflight
    \/ ExtractUpload
    \/ AnalyzeConfigRaises
    \/ AnalyzeNotConfigured
    \/ AnalyzeSubmitFails
    \/ AnalyzeSubmit
    \/ PollAttempt
    \/ PollTimeout

Spec == Init /\ [][Next]_vars

(***************************************************************************)
(* _parse_multipart on its own                                             *)
(***************************************************************************)
InitParse ==
    /\ mp_in \in ParseInputs
    /\ mp_out = <<>>
    /\ req = NoRequest
    /\ env = Environ(None, None, None, None)
    /\ pc = "parse"
    /\ debug_steps = <<>>
    /\ file_bytes = None
    /\ file_ct = None
    /\ filename = None
    /\ op_url = None
    /\ attempt = 0
    /\ calls = <<>>
    /\ submit_resp = <<>>
    /\ poll_log = <<>>
    /\ response = <<>>
    /\ peer = NoPeer

ParseMultipart ==
    /\ pc = "parse"
    /\ mp_out = <<>>
    /\ mp_out' = <<_parse_multipart(
                      MultipartBody(Boundary, PartsBytes(mp_in.parts)),
                      mp_in.content_type)>>
    /\ UNCHANGED <<mp_in, main_vars, peer>>

NextParse == ParseMultipart

SpecParse == InitParse /\ [][NextParse]_vars

(***************************************************************************)
(* _infer_content_type on its own                                          *)
(***************************************************************************)
\* longest tail that follows a signature, and longest buffer without one
MaxBufferLen == 2

\* the buffers _infer_content_type is run on: the empty one, short ones
\* over a few bytes, and the signatures of PDF, JPEG, PNG, GIF and TIFF
\* (II*\0, MM\0*) files with a tail
SniffBuffers ==
    SeqsUpTo({"X", "%", "G", "I", "M", "x00"}, MaxBufferLen)
    \cup {sig \o tail :
            sig \in {Sig_pdf, Sig_jpeg, Sig_png, Sig_gif87, Sig_gif89,
                     <<"I", "I", "*", "x00">>, <<"M", "M", "x00", "*">>,
                     <<"G", "I", "F", "8", "8", "a">>,
                     <<"%", "P", "D">>},
            tail \in SeqsUpTo({"X", "x00"}, MaxBufferLen)}

InitSniff ==
    /\ file_bytes \in SniffBuffers
    /\ pc = "sniff"
    /\ file_ct = None
    /\ mp_in = NoParseInput
    /\ mp_out = <<>>
    /\ req = NoRequest
    /\ env = Environ(None, None, None, None)
    /\ debug_steps = <<>>
    /\ filename = None
    /\ op_url = None
    /\ attempt = 0
    /\ calls = <<>>
    /\ submit_resp = <<>>
    /\ poll_log = <<>>
    /\ response = <<>>
    /\ peer = NoPeer

Sniff ==
    /\ pc = "sniff"
    /\ file_ct' = _infer_content_type(file_bytes)
    /\ pc' = "sniffed"
    /\ UNCHANGED <<req, env, debug_steps, file_bytes, filename, op_url,
                   attempt, calls, submit_resp, poll_log, response, mp_in,
                   mp_out, peer>>

SpecSniff == InitSniff /\ [][Sniff]_vars

(***************************************************************************)
(* Two calls of main at once: the worker runs one, the other is suspended  *)
(* between two of its steps, and the worker may switch at any such point   *)
(***************************************************************************)
\* the locals of the running call: main's arguments and local variables
\* (debug_steps is created by each call), with the calls it made and the
\* answers it got
Locals ==
    [req |-> req, pc |-> pc, debug_steps |-> debug_steps,
     file_bytes |-> file_bytes, file_ct |-> file_ct, filename |-> filename,
     op_url |-> op_url, attempt |-> attempt, calls |-> calls,
     submit_resp |-> submit_resp, poll_log |-> poll_log,
     response |-> response]

\* Resumed with debug_steps one list of the module that every call
\* appends to
Resumed_SharedTrace(saved, running) ==
    [saved EXCEPT !.debug_steps = running.debug_steps]

\* what a suspended call finds when it runs again: its own locals, as it
\* left them; nothing of the call that ran meanwhile
Resumed(saved, running) == saved

\* the worker suspends the running call and resumes the other one
ContextSwitch ==
    /\ peer # NoPeer
    /\ peer' = Locals
    /\ req' = Resumed(peer, Locals).req
    /\ pc' = Resumed(peer, Locals).pc
    /\ debug_steps' = Resumed(peer, Locals).debug_steps
    /\ file_bytes' = Resumed(peer, Locals).file_bytes
    /\ file_ct' = Resumed(peer, Locals).file_ct
    /\ filename' = Resumed(peer, Locals).filename
    /\ op_url' = Resumed(peer, Locals).op_url
    /\ attempt' = Resumed(peer, Locals).attempt
    /\ calls' = Resumed(peer, Locals).calls
    /\ submit_resp' = Resumed(peer, Locals).submit_resp
    /\ poll_log' = Resumed(peer, Locals).poll_log
    /\ response' = Resumed(peer, Locals).response
    /\ UNCHANGED <<env, mp_in, mp_out>>

\* the requests and environments of the two calls
PairRequests ==
    {Req(S_POST, PdfBytes, None),
     Req(S_POST, MultipartBody(Boundary, <<FilePart(<<"a">>, None, <<"X">>)>>),
         H_plain),
     Req(S_POST, <<>>, None),
     Req(S_OPTIONS, PdfBytes, S_application_pdf)}
PairEnvirons ==
    {Environ(S_endpoint, S_key, DigitStr(1), <<"0">>),
     Environ(S_endpoint, None, DigitStr(1), None),
     Environ(S_endpoint, S_key, <<"x">>, None)}

InitPair ==
    /\ req \in PairRequests
    /\ \E r \in PairRequests : peer = Invocation(r)
    /\ env \in PairEnvirons
    /\ pc = "start"
    /\ debug_steps = <<>>
    /\ file_bytes = None
    /\ file_ct = None
    /\ filename = None
    /\ op_url = None
    /\ attempt = 0
    /\ calls = <<>>
    /\ submit_resp = <<>>
    /\ poll_log = <<>>
    /\ response = <<>>
    /\ mp_in = NoParseInput
    /\ mp_out = <<>>

NextPair == Next \/ ContextSwitch

SpecPair == InitPair /\ [][NextPair]_vars

(***************************************************************************)
(* Vocabulary of the properties                                            *)
(***************************************************************************)
Responded == response # <<>>
Resp == response[1]
JsonResponded == Responded /\ Resp.body # <<>>
Body == Resp.body[1]
Cfg == _get_config(env)
GetCount == Cardinality({i \in 1..Len(calls) : calls[i].op = "GET"})
PostCount == Cardinality({i \in 1..Len(calls) : calls[i].op = "POST"})

M_EmptyBody == "Request body is empty."
M_NoFileFound == "No file found in multipart/form-data."
M_ConfigMissing ==
    "Azure Document Intelligence endpoint or key is not configured."
M_SubmitStatus == "Analyze call failed with HTTP"
M_SubmitNoHeader == "Analyze call did not return operation-location header."
M_PollStatus == "Poll failed with HTTP"
M_PollJson == "Failed to decode JSON from poll response."
M_Failed == "Analyze operation reported failed."
M_TimedOut == "Timed out waiting for analyze result."
M_NoText == "OCR returned no text. Try a clearer photo or PDF."
M_Unhandled == "Unhandled exception in ocr_http."
M_Succeeded == "OCR succeeded."

\* the status a poll answer reports: the top-level status member, else the
\* one of the analyzeResult object; None when neither is there
Reported(resp) ==
    IF JGet(resp.data.status) \notin {None, <<>>} THEN resp.data.status
    ELSE IF resp.data.analyzeResult.kind = "dict"
    THEN JGet(resp.data.analyzeResult.status)
    ELSE None

\* a 200 answer whose body is a JSON object the status can be read from
Is200Object(resp) ==
    /\ ~resp.urlerror
    /\ resp.http = 200
    /\ resp.json = "object"
    /\ resp.data.analyzeResult.kind # "null"

ReportsSucceeded(resp) ==
    Is200Object(resp) /\ Reported(resp) \in {S_succeeded, S_Succeeded}
ReportsFailed(resp) ==
    Is200Object(resp) /\ Reported(resp) \in {S_failed, S_Failed}
\* notStarted, running, partiallySucceeded
ReportsNonTerminal(resp) ==
    /\ Is200Object(resp)
    /\ Reported(resp) \in {S_running, S_notStarted, S_partiallySucceeded}
\* the same, or no status at all
ReportsNoTerminal(resp) ==
    Is200Object(resp) /\ ~ReportsSucceeded(resp) /\ ~ReportsFailed(resp)

\* the poll wait of the configuration is a duration time.sleep takes
WaitIsDuration == ~Cfg.poll_sleep_negative

(***************************************************************************)
(* Properties                                                              *)
(***************************************************************************)

\* The outcome of the poll loop for poll_attempts = N >= 1: N-1 answers
\* with a non-terminal status and then succeeded end the request with the
\* result built from the N-th payload; N answers with a non-terminal
\* status end it as "Timed out" after exactly N GETs (in the
\* configurations of wait_taken); never more than N GETs go out, and
\* "Timed out" is only answered after N GETs without a terminal status.
PollLoopOutcome(wait_taken) ==
    LET N == Cfg.poll_attempts
        n == Len(poll_log)
    IN (pc \in {"poll", "done"} /\ ~Cfg.raised /\ N >= 1) =>
         /\ GetCount = n
         /\ GetCount <= N
         /\ ( /\ n = N
              /\ \A i \in 1..(N - 1) : ReportsNonTerminal(poll_log[i])
              /\ ReportsSucceeded(poll_log[N]) )
            => /\ pc = "done"
               /\ Resp = MainResult(poll_log[N].data, debug_steps, op_url)
         /\ ( /\ n = N
              /\ \A i \in 1..N : ReportsNonTerminal(poll_log[i])
              /\ wait_taken )
            => /\ pc = "poll" => attempt = N /\ ~Responded
               /\ pc = "done" => JsonResponded /\ Body.message = M_TimedOut
         /\ (pc = "done" /\ JsonResponded /\ Body.message = M_TimedOut)
            => /\ n = N
               /\ \A i \in 1..N : ReportsNoTerminal(poll_log[i])

\* C1 (the claim as stated): for every poll_attempts = N >= 1, when the
\* first N-1 GETs are answered 200 with a non-terminal status and the N-th
\* with succeeded, the request ends as succeeded with that payload; when
\* all N GETs are answered with a non-terminal status, it ends as
\* "Timed out" after exactly N GETs and no further GET
C1_PollLoopOutcome == PollLoopOutcome(TRUE)

\* the same restricted to the configurations whose poll wait time.sleep
\* takes (AZURE_DI_MAX_POLL_WAIT unset or not negative)
PollLoopOutcome_WaitIsDuration == PollLoopOutcome(WaitIsDuration)

\* C2 (the claim as stated): a submit answer with status 200 or 202 and an
\* operation-location header moves the request to polling; any other
\* status ends it as SubmitError
C2_SubmitAccepts200And202 ==
    submit_resp # <<>> =>
        LET r == submit_resp[1]
            loc == HGet(r.headers, "operation-location")
        IN /\ (r.status \in {200, 202} /\ loc # None /\ loc # <<>>)
              => (pc = "poll" \/ GetCount >= 1)
           /\ r.status \notin {200, 202}
              => /\ pc = "done"
                 /\ JsonResponded
                 /\ Body.message = M_SubmitStatus
                 /\ GetCount = 0

\* C3 (the claim as stated): a 202 answer without operation-location header
\* in any spelling ends as SubmitError with no GET; with the header in any
\* spelling the request goes on to polling
C3_HeaderAnyCasing ==
    (submit_resp # <<>> /\ submit_resp[1].status = 202) =>
        LET hs == submit_resp[1].headers
        IN /\ (\A i \in 1..Len(hs) : hs[i][1] \notin HeaderSpellings)
              => /\ pc = "done"
                 /\ JsonResponded
                 /\ Body.message = M_SubmitNoHeader
                 /\ GetCount = 0
           /\ (\E i \in 1..Len(hs) :
                  hs[i][1] \in HeaderSpellings /\ hs[i][2] # <<>>)
              => (pc = "poll" \/ GetCount >= 1)

\* C4: a POST with an empty body is answered 400 with ok:false, whatever
\* its Content-Type; nothing is decoded (no step is traced, no bytes are
\* resolved) and nothing is sent to the analysis service
C4_EmptyBody ==
    (req.method = S_POST /\ req.body = <<>>) =>
        /\ calls = <<>>
        /\ debug_steps = <<>>
        /\ file_bytes = None
        /\ pc \in {"start", "done"}
        /\ pc = "done" => /\ JsonResponded
                          /\ Resp.status_code = 400
                          /\ ~Body.ok
                          /\ Body.message = M_EmptyBody

\* C4 witness: an empty body sent as multipart/form-data, answered 400
C4_Witness ==
    /\ pc = "done"
    /\ req.method = S_POST
    /\ req.body = <<>>
    /\ req.content_type = H_plain
    /\ Resp.status_code = 400

\* an exception reached main's except branch: _get_config raised, the
\* POST or the last GET failed with URLError, the last poll answer was
\* JSON but no object to read a status from, or time.sleep raised
ExceptionRaised ==
    \/ Cfg.raised
    \/ PostCount = 1 /\ submit_resp = <<>>
    \/ /\ poll_log # <<>>
       /\ LET last == poll_log[Len(poll_log)]
          IN \/ last.urlerror
             \/ /\ ~last.urlerror
                /\ last.http = 200
                /\ \/ last.json = "nonobject"
                   \/ /\ last.json = "object"
                      /\ last.data.analyzeResult.kind = "null"
                      /\ JGet(last.data.status) \in {None, <<>>}
             \/ ReportsNoTerminal(last) /\ ~WaitIsDuration

\* C5: the status code follows the kind of outcome: EmptyBody and
\* NoFileFound are 400; ConfigMissing, SubmitError, PollError,
\* AnalysisFailed and AnalysisTimedOut are 200 with ok:false; 500 only
\* after an exception; ok:true only with 200
C5_StatusByOutcome ==
    (pc = "done" /\ JsonResponded) =>
        /\ Body.message \in {M_EmptyBody, M_NoFileFound}
           => Resp.status_code = 400 /\ ~Body.ok
        /\ Body.message \in {M_ConfigMissing, M_SubmitStatus, M_SubmitNoHeader,
                             M_PollStatus, M_PollJson, M_Failed, M_TimedOut}
           => Resp.status_code = 200 /\ ~Body.ok
        /\ Resp.status_code = 500
           => Body.message = M_Unhandled /\ ExceptionRaised /\ ~Body.ok
        /\ Body.ok => Resp.status_code = 200
        /\ Resp.status_code \in {200, 400, 500}

\* C5 witness: a poll answered with an HTTP error, reported as 200 with
\* ok:false
C5_Witness ==
    /\ pc = "done"
    /\ JsonResponded
    /\ Body.message = M_PollStatus
    /\ Resp.status_code = 200
    /\ ~Body.ok

\* a 200 answer with a JSON object that holds neither succeeded nor
\* failed as its status: another status, or none (no status member, also
\* no analyzeResult object to read one from)
NoTerminalStatus(resp) ==
    /\ ~resp.urlerror
    /\ resp.http = 200
    /\ resp.json = "object"
    /\ Reported(resp) \notin {S_succeeded, S_Succeeded, S_failed, S_Failed}

\* The first 200 answer that reports failed/Failed ends the loop: the
\* request ends as "reported failed" with that payload attached and no
\* further GET; an answer that is one of others does not end it: the next
\* attempt is made, or is the one thing left to do, when an attempt
\* remains, and only "Timed out" can follow the last one.
FailedEndsOthersContinue(as_stated) ==
    LET N == Cfg.poll_attempts
        n == Len(poll_log)
    IN \A i \in 1..n :
         /\ ReportsFailed(poll_log[i])
            => /\ i = n
               /\ pc = "done"
               /\ JsonResponded
               /\ ~Body.ok
               /\ Body.message = M_Failed
               /\ Body.raw = <<poll_log[i].data>>
               /\ GetCount = n
         /\ (IF as_stated
             THEN NoTerminalStatus(poll_log[i])
             ELSE ReportsNoTerminal(poll_log[i]) /\ WaitIsDuration)
            => IF i < N
               THEN i < n \/ (pc = "poll" /\ attempt = i /\ ~Responded)
               ELSE /\ i = n
                    /\ \/ pc = "poll" /\ attempt = N /\ ~Responded
                       \/ pc = "done" /\ JsonResponded
                          /\ Body.message = M_TimedOut

\* C6 (the claim as stated): the first 200 answer whose status is
\* failed/Failed ends the loop as failed with that payload attached and no
\* further GET; a 200 answer whose status is neither succeeded/Succeeded
\* nor failed/Failed (notStarted, running, partiallySucceeded, missing)
\* never ends the loop by itself: the next attempt is made if any remains
C6_FailedEndsOthersContinue == FailedEndsOthersContinue(TRUE)

\* the same for the answers the status can be read from (analyzeResult an
\* object or absent) and a poll wait time.sleep takes
FailedEndsOthersContinue_Readable == FailedEndsOthersContinue(FALSE)

\* C7: a response with ok:true or with ocr_text only comes after a poll
\* answer that reported succeeded (or partiallySucceeded); a request that
\* ended as failed, timed out, poll error or submit error carries no text
C7_TextOnlyAfterSucceeded ==
    (pc = "done" /\ JsonResponded) =>
        /\ (Body.ok \/ Body.ocr_text # None \/ Body.ocr_text_snippet # None)
           => \E i \in 1..Len(poll_log) :
                 /\ Is200Object(poll_log[i])
                 /\ Reported(poll_log[i]) \in
                        {S_succeeded, S_Succeeded, S_partiallySucceeded}
        /\ ( \/ Body.message \in {M_SubmitStatus, M_SubmitNoHeader,
                                  M_PollStatus, M_PollJson, M_Failed,
                                  M_TimedOut}
             \/ (poll_log # <<>> /\ ReportsFailed(poll_log[Len(poll_log)])) )
           => ~Body.ok /\ Body.ocr_text = None /\ Body.ocr_text_snippet = None

\* C7 witness: a response with ok:true and the text of the payload
C7_Witness ==
    /\ pc = "done"
    /\ JsonResponded
    /\ Body.ok
    /\ Body.ocr_text = T_Hi
    /\ ReportsSucceeded(poll_log[Len(poll_log)])

\* C8 (the claim as stated): for a body that is JSON with a bytes_b64 or
\* data_b64 member, the resolved payload is the base64-decoded document,
\* whatever the Content-Type says
C8_JsonBase64Wins ==
    \A f \in {S_bytes_b64, S_data_b64}, d \in JsonDocuments :
        (req.method = S_POST /\ req.body = JsonB64Body(f, d) /\ pc # "start")
        => file_bytes = d

\* C9 (the claim as stated): a multipart body built from one file part
\* with a filename and a non-empty payload parses to that payload and that
\* filename
C9_MultipartRoundTrip ==
    ( /\ mp_out # <<>>
      /\ Len(mp_in.parts) = 1
      /\ mp_in.parts[1].file
      /\ mp_in.parts[1].payload # <<>> )
    => /\ mp_out[1].file_bytes = mp_in.parts[1].payload
       /\ mp_out[1].filename = mp_in.parts[1].filename

\* a multipart/form-data POST whose parts are plain form fields
FieldsOnlyRequest ==
    /\ req.method = S_POST
    /\ req.content_type \in {H_plain, H_quoted}
    /\ \E ps \in FieldsOnlyParts : req.body = MultipartBody(Boundary, ps)

\* C10: a multipart/form-data request with plain form fields only gets
\* nothing from _parse_multipart ("no file part found") and ends as
\* NoFileFound, ok:false with 400; the raw body is not taken instead and
\* nothing is sent to the analysis service
C10_NoFileFound ==
    FieldsOnlyRequest =>
        /\ calls = <<>>
        /\ file_bytes = None
        /\ pc \in {"start", "done"}
        /\ pc = "done"
           => /\ JsonResponded
              /\ Resp.status_code = 400
              /\ ~Body.ok
              /\ Body.message = M_NoFileFound
              /\ debug_steps # <<>>
              /\ debug_steps[Len(debug_steps)].step
                    = "multipart: no file part found"

\* C10 witness: two form fields under a quoted boundary, answered 400
C10_Witness ==
    /\ FieldsOnlyRequest
    /\ req.content_type = H_quoted
    /\ req.body = MultipartBody(Boundary,
                                <<FieldPart(<<"v">>), FieldPart(<<>>)>>)
    /\ pc = "done"
    /\ Resp.status_code = 400
    /\ Body.message = M_NoFileFound

\* the signatures and the MIME type of TIFF files
Sig_tiff_II == <<"I", "I", "*", "x00">>
Sig_tiff_MM == <<"M", "M", "x00", "*">>
S_image_tiff == <<"i", "m", "a", "g", "e", "/", "t", "i", "f", "f">>

\* the MIME type of a buffer by its signature: PDF, JPEG, PNG, TIFF in
\* both byte orders, GIF87a/GIF89a, else application/octet-stream
MimeBySignature(data) ==
    IF StartsWith(data, Sig_pdf) THEN S_application_pdf
    ELSE IF StartsWith(data, Sig_jpeg) THEN S_image_jpeg
    ELSE IF StartsWith(data, Sig_png) THEN S_image_png
    ELSE IF StartsWith(data, Sig_tiff_II) \/ StartsWith(data, Sig_tiff_MM)
    THEN S_image_tiff
    ELSE IF StartsWith(data, Sig_gif87) \/ StartsWith(data, Sig_gif89)
    THEN S_image_gif
    ELSE S_octet_stream

\* C11 (the claim as stated): for every buffer, _infer_content_type
\* returns the MIME type of the signature the buffer starts with (PDF,
\* JPEG, PNG, TIFF II*\0 and MM\0*, GIF87a/GIF89a) and
\* application/octet-stream for every other buffer, the empty one included
C11_MimeOfEverySignature ==
    pc = "sniffed" => file_ct = MimeBySignature(file_bytes)

\* the lines of the pages of a result, in page order then line order
RECURSIVE LinesOf(_)
LinesOf(pages) ==
    IF pages = <<>> THEN <<>> ELSE Head(pages) \o LinesOf(Tail(pages))

\* "\n".join(lines)
RECURSIVE JoinLines(_)
JoinLines(lines) ==
    IF lines = <<>> THEN <<>>
    ELSE IF Len(lines) = 1 THEN lines[1]
    ELSE lines[1] \o <<LF>> \o JoinLines(Tail(lines))

\* the full text by the resolution order: top-level content when present,
\* otherwise analyzeResult.content, otherwise the lines of the pages
ResolvedText(result) ==
    LET ar == result.analyzeResult
    IN IF result.content # Absent THEN Or(JGet(result.content), <<>>)
       ELSE IF ar.kind = "dict" /\ ar.content # Absent
       THEN Or(JGet(ar.content), <<>>)
       ELSE IF ar.kind = "dict" /\ "pages" \in DOMAIN ar
       THEN JoinLines(LinesOf(ar.pages))
       ELSE <<>>

\* C12 (the claim as stated): the text returned for a succeeded analysis
\* is the top-level content when present, otherwise analyzeResult.content,
\* otherwise the pages' lines joined by newlines ("Hello\nWorld" for two
\* pages of one line each); the snippet is its prefix of at most
\* SnippetLen characters
C12_TextResolutionOrder ==
    ( /\ pc = "done"
      /\ poll_log # <<>>
      /\ ReportsSucceeded(poll_log[Len(poll_log)])
      /\ Strip(ResolvedText(poll_log[Len(poll_log)].data), WhiteSpace) # <<>> )
    => LET text == ResolvedText(poll_log[Len(poll_log)].data)
       IN /\ JsonResponded
          /\ Body.ocr_text = text
          /\ Body.ocr_text_snippet =
                Slice(text, 0, IF Len(text) < SnippetLen
                               THEN Len(text) ELSE SnippetLen)

\* a is b or the beginning of b
IsPrefix(a, b) == Len(a) <= Len(b) /\ SubSeq(b, 1, Len(a)) = a

\* C13: every step of the handler leaves the debug trace as it was or
\* extends it at the end (no step is removed, reordered or rewritten), and
\* every JSON response, of any kind, carries under debug.steps the trace
\* collected up to the return
C13_TraceAppendOnlyAndReturned ==
    [][ /\ IsPrefix(debug_steps, debug_steps')
        /\ (response' # <<>> /\ response'[1].body # <<>>)
           => response'[1].body[1].debug = debug_steps' ]_vars

\* C13 witness: an exception during polling, answered 500 with the steps
\* of the upload, the submit and the poll attempt
C13_Witness ==
    /\ pc = "done"
    /\ JsonResponded
    /\ Resp.status_code = 500
    /\ GetCount = 1
    /\ Len(debug_steps) >= 4
    /\ Body.debug = debug_steps

\* C14: the analysis service sees at most one submit POST per request,
\* and it is the first call; every poll GET comes after a submit answered
\* 202 with an operation-location header, and goes to the URL that header
\* gave
C14_OneSubmitThenPollsToItsUrl ==
    /\ PostCount <= 1
    /\ \A i \in 1..Len(calls) :
          /\ calls[i].op = "POST" => i = 1
          /\ calls[i].op = "GET"
             => /\ i > 1
                /\ calls[1].op = "POST"
                /\ submit_resp # <<>>
                /\ submit_resp[1].status = 202
                /\ calls[i].url # None
                /\ calls[i].url # <<>>
                /\ \E k \in 1..Len(submit_resp[1].headers) :
                      /\ submit_resp[1].headers[k][1] \in HeaderSpellings
                      /\ submit_resp[1].headers[k][2] = calls[i].url

\* C14 witness: a submit answered 202, then two GETs to the URL it gave
C14_Witness ==
    /\ PostCount = 1
    /\ GetCount = 2
    /\ submit_resp # <<>>
    /\ submit_resp[1].status = 202
    /\ \A i \in 1..Len(calls) : calls[i].op = "GET" => calls[i].url = U1

\* a poll answer with a terminal status: succeeded or failed
ReportsTerminal(resp) == ReportsSucceeded(resp) \/ ReportsFailed(resp)

\* C15 (the claim as stated): in every iteration of the poll loop the wait
\* comes before the GET: every GET, the first one included, directly
\* follows a wait, and no wait happens once a terminal status is read
C15_WaitBeforeEveryGet ==
    /\ \A i \in 1..Len(calls) :
          calls[i].op = "GET" => (i > 1 /\ calls[i - 1].op = "SLEEP")
    /\ (poll_log # <<>> /\ ReportsTerminal(poll_log[Len(poll_log)]))
       => calls[Len(calls)].op = "GET"

\* a GET answered with an HTTP status other than 200
PollHttpError(resp) == ~resp.urlerror /\ resp.http # 200
\* a GET answered 200 with a body that is no JSON
PollBadJson(resp) == ~resp.urlerror /\ resp.http = 200 /\ resp.json = "invalid"

\* C16: a poll GET answered with a status other than 200, or with 200 and
\* a body that is no JSON, ends the request at that attempt with the poll
\* error of its kind as an ok:false result, answered 200: it is the last
\* GET, nothing is waited for, and no exception is reported
C16_PollErrorEndsPolling ==
    \A i \in 1..Len(poll_log) :
        (PollHttpError(poll_log[i]) \/ PollBadJson(poll_log[i]))
        => /\ i = Len(poll_log)
           /\ GetCount = i
           /\ calls[Len(calls)].op = "GET"
           /\ pc = "done"
           /\ JsonResponded
           /\ Resp.status_code = 200
           /\ ~Body.ok
           /\ Body.error = <<>>
           /\ Body.message = IF PollHttpError(poll_log[i]) THEN M_PollStatus
                             ELSE M_PollJson
           /\ PollHttpError(poll_log[i]) => Body.http = poll_log[i].http

\* C16 witness: of three attempts the second is answered 200 with a body
\* that is no JSON; the request ends there
C16_Witness ==
    /\ pc = "done"
    /\ Cfg.poll_attempts = 3
    /\ Len(poll_log) = 2
    /\ PollBadJson(poll_log[2])
    /\ GetCount = 2
    /\ JsonResponded
    /\ Body.message = M_PollJson

\* C18: whenever _extract_upload returns without error, on the multipart
\* path and on the raw path, the bytes it resolved are not empty; hence
\* every submit POST carries a body that is not empty
C18_PayloadNeverEmpty ==
    /\ (pc \in {"analyze", "poll"} \/ calls # <<>>)
       => (file_bytes # None /\ file_bytes # <<>>)
    /\ \A i \in 1..Len(calls) :
          calls[i].op = "POST"
          => (calls[i].data # <<>> /\ calls[i].data = file_bytes)

\* C18 witness: a file taken from a multipart body has been submitted
C18_Witness ==
    /\ PostCount = 1
    /\ req.content_type = H_plain
    /\ filename = <<"a">>
    /\ calls[1].data = <<"X">>

\* C19 (the claim as stated): the configuration the poll loop runs with
\* has poll_attempts >= 1 and a poll wait >= 0, whatever the environment
\* holds; so a request that ends as "Timed out" has issued a GET
C19_ConfigValidated ==
    /\ (pc = "poll" \/ poll_log # <<>>)
       => /\ ~Cfg.raised
          /\ Cfg.poll_attempts >= 1
          /\ ~Cfg.poll_sleep_negative
    /\ (pc = "done" /\ JsonResponded /\ Body.message = M_TimedOut)
       => GetCount >= 1

\* the first part of a body that has a filename= attribute, 0 when none
FirstFilePart(parts) ==
    IF \E k \in 1..Len(parts) : parts[k].file
    THEN CHOOSE k \in 1..Len(parts) :
            parts[k].file /\ \A j \in 1..(k - 1) : ~parts[j].file
    ELSE 0

\* C20 (the claim as stated): of a body with several parts
\* _parse_multipart returns the body, the filename and the content type
\* of the first part with a filename= attribute, also when that part's
\* body is empty; no later file part is returned in its place
C20_FirstFilePartWins ==
    (mp_out # <<>> /\ Len(mp_in.parts) >= 2
     /\ FirstFilePart(mp_in.parts) # 0)
    => LET first == mp_in.parts[FirstFilePart(mp_in.parts)]
       IN /\ mp_out[1].filename = first.filename
          /\ mp_out[1].file_bytes = first.payload
          /\ mp_out[1].ct = first.ct

\* what a call of main was given: its request, and the answers of the
\* service to its own calls so far
SameInputs(a, b) ==
    /\ a.req = b.req
    /\ a.pc = b.pc
    /\ a.submit_resp = b.submit_resp
    /\ a.poll_log = b.poll_log

\* C17: with two calls of main interleaved in any way, a call's trace,
\* calls and response depend only on its own request and on the answers
\* to its own calls: two calls that got the same, at the same point of
\* their work, have the same trace, made the same calls and return the
\* same response; and a step of one call changes nothing of the other
\* call's state, nor the configuration both read
C17_RequestsDoNotInterfere ==
    /\ [](SameInputs(Locals, peer) => Locals = peer)
    /\ [][ /\ env' = env
           /\ peer' = peer \/ (peer' = Locals /\ Locals' = peer) ]_vars

\* C17 witness: both calls have polled, with different answers, and one
\* has returned its text while the other timed out with its own trace
C17_Witness ==
    /\ pc = "done"
    /\ peer.pc = "done"
    /\ req = peer.req
    /\ JsonResponded
    /\ Body.ok
    /\ peer.response # <<>>
    /\ peer.response[1].body # <<>>
    /\ peer.response[1].body[1].message = M_TimedOut
    /\ Body.debug # peer.response[1].body[1].debug

\* empty, or white space only
Blank(text) == Strip(text, WhiteSpace) = <<>>

\* C21: a request whose analysis was reported succeeded with a text that
\* is empty or white space only is answered 200 with ok:false, "OCR
\* returned no text", the debug trace and the operation URL, never with
\* ok:true; every ok:true response is a 200 with an ocr_text that is not
\* blank and an ocr_text_snippet that is a prefix of it
C21_BlankTextIsNotSuccess ==
    /\ ( /\ pc = "done"
         /\ poll_log # <<>>
         /\ ReportsSucceeded(poll_log[Len(poll_log)])
         /\ Blank(ResolvedText(poll_log[Len(poll_log)].data)) )
       => /\ JsonResponded
          /\ Resp.status_code = 200
          /\ ~Body.ok
          /\ Body.message = M_NoText
          /\ Body.ocr_text = None
          /\ Body.debug = debug_steps
          /\ Body.operation_url = op_url
          /\ op_url # None
    /\ (JsonResponded /\ Body.ok)
       => /\ Resp.status_code = 200
          /\ Body.ocr_text # None
          /\ ~Blank(Body.ocr_text)
          /\ IsPrefix(Body.ocr_text_snippet, Body.ocr_text)

\* C21 witness: the analysis succeeded with a text of one space; the
\* answer is ok:false with the operation URL
C21_Witness ==
    /\ pc = "done"
    /\ poll_log # <<>>
    /\ ReportsSucceeded(poll_log[Len(poll_log)])
    /\ poll_log[Len(poll_log)].data.analyzeResult.content = <<SP>>
    /\ JsonResponded
    /\ ~Body.ok
    /\ Body.message = M_NoText
    /\ Body.operation_url = U1

====
